---- MODULE Spec2Model ----
(***************************************************************************)
(* Bot controller (backend/app/api/bot_control.py), its worker processes   *)
(* (bot/smart_bot.py, bot/real_atoz_bot.py, bot/integrated_bot.py) and the *)
(* bot_sessions table they share.                                          *)
(*                                                                         *)
(* Scheduling.  Every request handler is an `async def` run by one event   *)
(* loop: two handlers interleave only where a handler awaits.  The         *)
(* bot_loop threads and the worker processes run concurrently with the     *)
(* event loop.  An action below is the code between two awaits.            *)
(***************************************************************************)
EXTENDS Integers, FiniteSets, Sequences, TLC

\* ---------------------------------------------------------------- bounds
MaxSessions == 2
MaxProcs == 2
MaxThreads == 2
MaxChecks == 1
MaxRealBots == 1
MaxIterations == 2
MaxJobs == 2
\* Cycles of the atoz_bot worker: more than max_consecutive_errors + 1.
MaxCycles == 12
\* Cycles of the atoz_bot worker followed job by job.
MaxBoardCycles == 2
\* Values of MAX_ACCEPT_PER_RUN: 0..MaxCap.
MaxCap == 2
\* GET /status requests in flight at once.
MaxStatusReqs == 2
MaxTasks == 3

SessionIds == 1..MaxSessions
ProcIds == 1..MaxProcs
ThreadIds == 1..MaxThreads
\* Two clients that may each have a start request under way.
StartReqs == {1, 2}

\* ----------------------------------------------------------------- state
VARIABLES
    bot_sessions,   \* the bot_sessions table: id -> row
    nextSession,    \* number of ids handed out so far (uuid / timestamp names)
    bot_process,    \* module global bot_process: 0 is None, else a pid
    bot_state,      \* the BotState object: running, thread, process
    threads,        \* bot_loop threads: "alive", or "none" (not started, or ended)
    procs,          \* OS worker processes
    inflight,       \* per worker, the POST /realtime-update not yet handled
    startReq,       \* start_bot requests: position and locals
    stopReq,        \* the stop_bot request: position and locals
    monitors,       \* sessions that have a monitor_bot_process task
    lastEvent,      \* the request that was the last handler to change the
                    \* state: "toggle_start", "toggle_stop", "toggle_restart"
                    \* (a starting toggle right after a stopping one),
                    \* "force_reset",
                    \* "force_reset_nodb" (its UPDATE failed), "stop" (a
                    \* stop_bot that ran undisturbed), "stop_refused" (a
                    \* stop_bot that answered 400), or "none"
    ib,             \* the integrated_bot worker (its main() locals)
    ab,             \* the atoz_bot worker (run_bot_with_session's locals)
    rc,             \* redis_bot_control: the RedisBotStateManager, the module
                    \* global bot_process, the position of stop_bot_redis
    ev,             \* one job before should_accept_job: the job, the details
                    \* text, the clock, the decisions taken
    cy,             \* atoz_bot: the body of one cycle of run_bot_with_session,
                    \* its totals and the accepts done on the portal
    tq,             \* RedisBotStateManager: the task queues
    lk              \* BotState seen with its lock: who holds it, the thread,
                    \* the GET /status requests

vars == <<bot_sessions, nextSession, bot_process, bot_state, threads, procs,
          inflight, startReq, stopReq, monitors, lastEvent, ib, ab, ev, rc, cy, tq, lk>>

\* ------------------------------------------------------------ the table
NoRow ==
    [status |-> "none", login_status |-> "none", total_checks |-> 0,
     total_accepted |-> 0, total_rejected |-> 0, end_time |-> 0]

\* BotSession(session_name=..., status="starting"): the other columns take
\* the table defaults.
NewSessionRow ==
    [status |-> "starting", login_status |-> "not_started", total_checks |-> 0,
     total_accepted |-> 0, total_rejected |-> 0, end_time |-> 0]

ActiveStatuses == {"starting", "running"}

ActiveSessions == {s \in SessionIds : bot_sessions[s].status \in ActiveStatuses}

RunningSessions == {s \in SessionIds : bot_sessions[s].status = "running"}

\* ------------------------------------------------------------ processes
NoProc ==
    [kind |-> "none", alive |-> FALSE, by |-> "none", sid |-> 0, phase |-> "none",
     check_count |-> 0, total_accepted |-> 0, total_rejected |-> 0]

NoMsg == [status |-> "none"]

\* What is left of a process that has ended: its locals are gone.
Ended(w) == [NoProc EXCEPT !.kind = w.kind, !.by = w.by]

LiveProcs == {p \in ProcIds : procs[p].alive}

SpawnedProcs == {p \in ProcIds : procs[p].kind # "none"}

NextProc == Cardinality(SpawnedProcs) + 1

LiveThreads == {t \in ThreadIds : threads[t] = "alive"}

\* The slot of the next thread; MaxThreads + 1 when every slot holds a live one.
NextThread ==
    IF LiveThreads = ThreadIds THEN MaxThreads + 1
    ELSE CHOOSE t \in ThreadIds \ LiveThreads : \A u \in ThreadIds \ LiveThreads : t <= u

ProcessPollIsNone(p) == p # 0 /\ procs[p].alive


\* ------------------------------------------------------------- BotState
ThreadAlive(bs) == bs.thread # 0 /\ threads[bs.thread] = "alive"

\* The mutant of IsRunningResult: the flag, whatever the thread does.
IsRunningFlag(bs) == bs.running

\* BotState.is_running: its return value ...
IsRunningResult(bs) == ThreadAlive(bs)

\* The mutant of IsRunningState: the handle of a dead thread is kept.
IsRunningStateKeepsHandle(bs) == bs

\* ... and the object it leaves: a dead thread's handle is dropped.
IsRunningState(bs) ==
    IF bs.thread # 0 /\ ~ThreadAlive(bs)
    THEN [bs EXCEPT !.running = FALSE, !.thread = 0]
    ELSE bs

\* BotState.start refuses while the tracked thread is alive.
BotStateStartAllowed(bs) == ~ThreadAlive(bs)

\* The mutant of JoinThread: the caller goes on while the thread lives.
JoinThreadNoWait(th, t) == th

\* self.thread.join(timeout=...): bot_loop takes no lock and blocks on
\* nothing (see BotLoop), so the joined thread has ended when join returns.
JoinThread(th, t) == [th EXCEPT ![t] = "none"]

\* BotState.stop: the threads and the object it leaves (it returns True on
\* both paths).
BotStateStopThreads(bs) ==
    IF ThreadAlive(bs) THEN JoinThread(threads, bs.thread) ELSE threads

BotStateStop(bs) == [bs EXCEPT !.running = FALSE, !.thread = 0]

\* BotState.reset
BotStateResetThreads(bs) ==
    IF ThreadAlive(bs) THEN JoinThread(threads, bs.thread) ELSE threads

BotStateReset(bs) == [running |-> FALSE, thread |-> 0, process |-> 0]

\* bot_loop, run by the thread BotState.start creates.  Its Popen argument
\* list reads sys.executable, and bot_control.py imports no module sys: the
\* read raises NameError inside the try, the handler at the end of bot_loop
\* prints it and the thread ends.  No subprocess is created.
BotLoop(t) ==
    /\ threads[t] = "alive"
    /\ threads' = [threads EXCEPT ![t] = "none"]
    /\ UNCHANGED <<bot_sessions, nextSession, bot_process, bot_state, procs,
                   inflight, startReq, stopReq, monitors, lastEvent, ib, ab, ev, rc, cy, tq, lk>>

\* The mutant of MarkStopped: WHERE status = 'running', whatever `which` is.
MarkStoppedRunningOnly(tbl, which) ==
    [s \in SessionIds |->
        IF tbl[s].status = "running" THEN [tbl[s] EXCEPT !.status = "stopped"]
        ELSE tbl[s]]

\* UPDATE bot_sessions SET status = 'stopped', updated_at = ... WHERE status
\* is in `which`
MarkStopped(tbl, which) ==
    [s \in SessionIds |->
        IF tbl[s].status \in which THEN [tbl[s] EXCEPT !.status = "stopped"]
        ELSE tbl[s]]

\* POST /toggle.  No await: the handler runs in one piece.
toggle_bot ==
    LET bs == IsRunningState(bot_state) IN
    IF ~IsRunningResult(bot_state)
    THEN \* bot_state.start(), then the is_running() of the response
         /\ NextThread <= MaxThreads
         /\ \E ended \in BOOLEAN :
              LET t == NextThread IN
              IF BotStateStartAllowed(bs)
              THEN /\ threads' = [threads EXCEPT
                                    ![t] = IF ended THEN "none" ELSE "alive"]
                   /\ bot_state' = IF ended
                                   THEN [bs EXCEPT !.running = FALSE, !.thread = 0]
                                   ELSE [bs EXCEPT !.running = TRUE, !.thread = t]
              ELSE /\ threads' = threads
                   /\ bot_state' = bs
         /\ lastEvent' = IF lastEvent = "toggle_stop" THEN "toggle_restart"
                         ELSE "toggle_start"
         /\ UNCHANGED <<bot_sessions, nextSession, bot_process, procs, inflight,
                        startReq, stopReq, monitors, ib, ab, ev, rc, cy, tq, lk>>
    ELSE \* bot_state.stop(), then the UPDATE unless the store fails
         /\ threads' = BotStateStopThreads(bs)
         /\ bot_state' = BotStateStop(bs)
         /\ \E dbOk \in BOOLEAN :
              bot_sessions' = IF dbOk THEN MarkStopped(bot_sessions, {"running"})
                              ELSE bot_sessions
         /\ lastEvent' = "toggle_stop"
         /\ UNCHANGED <<nextSession, bot_process, procs, inflight, startReq,
                        stopReq, monitors, ib, ab, ev, rc, cy, tq, lk>>

\* pkill -f real_atoz_bot
Pkill(ps, pattern) ==
    [p \in ProcIds |->
        IF ps[p].kind = pattern THEN Ended(ps[p]) ELSE ps[p]]

\* POST /force-reset.  No await.
force_reset_bot(dbOk) ==
    /\ procs' = Pkill(procs, "real_atoz_bot")
    /\ threads' = BotStateResetThreads(bot_state)
    /\ bot_state' = BotStateReset(bot_state)
    /\ bot_sessions' = IF dbOk THEN MarkStopped(bot_sessions, {"running", "starting"})
                       ELSE bot_sessions
    /\ lastEvent' = IF dbOk THEN "force_reset" ELSE "force_reset_nodb"
    /\ UNCHANGED <<nextSession, bot_process, inflight, startReq, stopReq,
                   monitors, ib, ab, ev, rc, cy, tq, lk>>

\* ------------------------------------------------------------ start_bot
\* ConnectionMonitor.status is keyed by the members of the enum ServiceType.
ServiceType ==
    {"ServiceType.DATABASE", "ServiceType.REDIS", "ServiceType.BOT_PROCESS",
     "ServiceType.EXTERNAL_API", "ServiceType.WEBSOCKET"}

critical_services == {"database", "external_api", "websocket"}

\* The member of ServiceType whose value is the name s.
MemberOf(s) ==
    CASE s = "database" -> "ServiceType.DATABASE"
      [] s = "external_api" -> "ServiceType.EXTERNAL_API"
      [] s = "websocket" -> "ServiceType.WEBSOCKET"

\* What check_all_services can return: check_database and check_external_api
\* report healthy or unhealthy, check_redis and check_websocket always
\* healthy, check_bot_process healthy or disconnected.
HealthReports ==
    {[m \in ServiceType |->
        CASE m = "ServiceType.DATABASE" -> db
          [] m = "ServiceType.EXTERNAL_API" -> api
          [] m = "ServiceType.BOT_PROCESS" -> bot
          [] OTHER -> "healthy"] :
     db \in {"healthy", "unhealthy"}, api \in {"healthy", "unhealthy"},
     bot \in {"healthy", "disconnected"}}

\* The critical services a report holds as not healthy.
ReportedUnhealthy(cs) == {s \in critical_services : cs[MemberOf(s)] # "healthy"}

\* start_bot's unhealthy_services: `service in connection_status` looks the
\* name (a str) up in a dict keyed by enum members.
unhealthy_services(cs) ==
    {s \in critical_services : s \in DOMAIN cs /\ cs[s] # "healthy"}

IdleStart == [pc |-> "idle", sid |-> 0, unhealthy |-> FALSE]

\* start_bot up to its first await (check_all_services)
StartCheck(r) ==
    /\ startReq[r].pc = "idle"
    /\ \A q \in StartReqs : q < r => startReq[q].pc # "idle"
    /\ IF ProcessPollIsNone(bot_process)
       THEN UNCHANGED startReq
       ELSE startReq' = [startReq EXCEPT ![r].pc = "health"]
    /\ UNCHANGED <<bot_sessions, nextSession, bot_process, bot_state, threads,
                   procs, inflight, stopReq, monitors, lastEvent, ib, ab, ev, rc, cy, tq, lk>>

\* ... from the health report to the await after db.refresh(session)
StartCreate(r) ==
    /\ startReq[r].pc = "health"
    /\ nextSession < MaxSessions
    /\ \E cs \in HealthReports :
         IF unhealthy_services(cs) # {}
         THEN /\ startReq' = [startReq EXCEPT ![r] = IdleStart]
              /\ UNCHANGED <<bot_sessions, nextSession, lastEvent>>
         ELSE LET sid == nextSession + 1 IN
              /\ bot_sessions' = [bot_sessions EXCEPT ![sid] = NewSessionRow]
              /\ nextSession' = sid
              /\ startReq' = [startReq EXCEPT
                                ![r] = [pc |-> "created", sid |-> sid,
                                        unhealthy |-> ReportedUnhealthy(cs) # {}]]
              /\ lastEvent' = "none"
    /\ UNCHANGED <<bot_process, bot_state, threads, procs, inflight, stopReq,
                   monitors, ib, ab, ev, rc, cy, tq, lk>>

\* The status a session row gets once Popen has returned.
StatusAfterSpawn == "running"

\* ... from Popen to the await after the second commit.  Popen raising is
\* caught by the outer handler, which sets the session to error.
StartSpawn(r) ==
    /\ startReq[r].pc = "created"
    /\ NextProc <= MaxProcs
    /\ LET sid == startReq[r].sid IN
       \E ok \in BOOLEAN :
         IF ok
         THEN LET p == NextProc IN
              /\ procs' = [procs EXCEPT
                             ![p] = [NoProc EXCEPT !.kind = "smart_bot",
                                                   !.alive = TRUE,
                                                   !.by = "start",
                                                   !.sid = sid]]
              /\ bot_process' = p
              /\ bot_sessions' = [bot_sessions EXCEPT
                                    ![sid].status = StatusAfterSpawn,
                                    ![sid].login_status = "attempting"]
              /\ startReq' = [startReq EXCEPT
                                ![r] = [pc |-> "spawned", sid |-> sid,
                                        unhealthy |-> FALSE]]
         ELSE /\ bot_sessions' = [bot_sessions EXCEPT ![sid].status = "error"]
              /\ startReq' = [startReq EXCEPT ![r] = IdleStart]
              /\ UNCHANGED <<procs, bot_process>>
    /\ lastEvent' = "none"
    /\ UNCHANGED <<nextSession, bot_state, threads, inflight, stopReq, monitors, ib, ab, ev, rc, cy, tq, lk>>

\* ... the system log, background_tasks.add_task(monitor_bot_process, ...)
\* and the response
StartFinish(r) ==
    /\ startReq[r].pc = "spawned"
    /\ monitors' = monitors \cup {startReq[r].sid}
    /\ startReq' = [startReq EXCEPT ![r] = IdleStart]
    /\ lastEvent' = "none"
    /\ UNCHANGED <<bot_sessions, nextSession, bot_process, bot_state, threads,
                   procs, inflight, stopReq, ib, ab, ev, rc, cy, tq, lk>>

\* ------------------------------------------------- monitor_bot_process
\* One turn of the loop `while bot_process and bot_process.poll() is None`
MonitorTick(sid) ==
    /\ sid \in monitors
    /\ ProcessPollIsNone(bot_process)
    /\ bot_sessions[sid].login_status = "attempting"
    /\ bot_sessions' = [bot_sessions EXCEPT ![sid].login_status = "success"]
    /\ lastEvent' = "none"
    /\ UNCHANGED <<nextSession, bot_process, bot_state, threads, procs,
                   inflight, startReq, stopReq, monitors, ib, ab, ev, rc, cy, tq, lk>>

\* The code after the loop
MonitorEnd(sid) ==
    /\ sid \in monitors
    /\ ~ProcessPollIsNone(bot_process)
    /\ bot_sessions' =
         IF bot_sessions[sid].status = "running"
         THEN [bot_sessions EXCEPT ![sid].status = "stopped", ![sid].end_time = 1]
         ELSE bot_sessions
    /\ monitors' = monitors \ {sid}
    /\ lastEvent' = "none"
    /\ UNCHANGED <<nextSession, bot_process, bot_state, threads, procs,
                   inflight, startReq, stopReq, ib, ab, ev, rc, cy, tq, lk>>

\* ------------------------------------------------------------- stop_bot
\* The process names stop_bot looks for in each command line:
\* 'smart_bot', 'integrated_bot', 'test_bot', 'atoz_bot'.
CmdlineMatches(kind) == kind \in {"smart_bot", "integrated_bot", "real_atoz_bot"}

KillMatching(ps) ==
    [p \in ProcIds |->
        IF CmdlineMatches(ps[p].kind) THEN Ended(ps[p])
        ELSE ps[p]]

\* db.query(BotSession).filter(BotSession.status == "running").first()
StopTarget == RunningSessions

\* stop_bot up to its first await: 400 without a running session (recorded
\* in lastEvent as "stop_refused"), else the session is marked stopped at
\* once.
StopMark ==
    /\ stopReq.pc = "idle"
    /\ IF StopTarget = {}
       THEN /\ lastEvent' = "stop_refused"
            /\ UNCHANGED <<bot_sessions, stopReq>>
       ELSE \E s \in StopTarget :
              /\ bot_sessions' = [bot_sessions EXCEPT ![s].status = "stopped",
                                                      ![s].end_time = 1]
              /\ stopReq' = [pc |-> "marked", sid |-> s]
              /\ lastEvent' = "stop"
    /\ UNCHANGED <<nextSession, bot_process, bot_state, threads, procs,
                   inflight, startReq, monitors, ib, ab, ev, rc, cy, tq, lk>>

\* ... the psutil sweep, the kill of bot_process, the log and the response
StopKill ==
    /\ stopReq.pc = "marked"
    /\ procs' = KillMatching(procs)
    /\ bot_process' = 0
    /\ stopReq' = [pc |-> "idle", sid |-> 0]
    /\ lastEvent' = IF lastEvent = "stop" THEN "stop" ELSE "none"
    /\ UNCHANGED <<bot_sessions, nextSession, bot_state, threads, inflight,
                   startReq, monitors, ib, ab, ev, rc, cy, tq, lk>>

\* ------------------------------------------------------- get_bot_status
\* The response get_bot_status builds without a look at the table.
NotRunningResponse ==
    [is_running |-> FALSE, session_id |-> 0, status |-> "stopped",
     login_status |-> "not_started", total_checks |-> 0, total_accepted |-> 0,
     total_rejected |-> 0]

\* The responses get_bot_status can give in a state: .first() of a query
\* without ORDER BY may return any of the running sessions.  session_id 0 is
\* None.
StatusResponses(bs, tbl) ==
    IF ~IsRunningResult(bs) THEN {NotRunningResponse}
    ELSE IF \E s \in SessionIds : tbl[s].status = "running"
    THEN {[is_running |-> TRUE, session_id |-> s, status |-> tbl[s].status,
           login_status |-> tbl[s].login_status,
           total_checks |-> tbl[s].total_checks,
           total_accepted |-> tbl[s].total_accepted,
           total_rejected |-> tbl[s].total_rejected] :
          s \in {x \in SessionIds : tbl[x].status = "running"}}
    ELSE {[NotRunningResponse EXCEPT !.is_running = TRUE, !.status = "starting",
                                     !.login_status = "attempting"]}

\* GET /status.  No await.  is_running() drops the handle of a dead thread.
get_bot_status ==
    /\ bot_state' = IsRunningState(bot_state)
    /\ lastEvent' = IF IsRunningState(bot_state) # bot_state THEN "none"
                    ELSE lastEvent
    /\ UNCHANGED <<bot_sessions, nextSession, bot_process, threads, procs,
                   inflight, startReq, stopReq, monitors, ib, ab, ev, rc, cy, tq, lk>>

\* ------------------------------------------------------ realtime_update
\* Both realtime_update and receive_realtime_update are registered for
\* POST /realtime-update on the same router; the route registered first,
\* realtime_update, serves the requests.

\* INSERT OR REPLACE INTO bot_sessions (id, session_name, status,
\* login_status, total_checks, total_accepted, total_rejected, created_at,
\* updated_at): the row of that id is replaced as a whole, the columns the
\* statement does not name (end_time among them) are NULL again.
ReplacedRow(old, m) ==
    [status |-> m.status, login_status |-> m.login_status,
     total_checks |-> m.total_checks, total_accepted |-> m.total_accepted,
     total_rejected |-> m.total_rejected, end_time |-> 0]

\* The handler for a database_update.  The engine is the one DATABASE_URL
\* names: one that knows INSERT OR REPLACE executes it, another (the default
\* URL is PostgreSQL) raises, and the handler prints the error and answers.
realtime_update(p) ==
    /\ inflight[p] # NoMsg
    /\ \E executed \in BOOLEAN :
         LET m == inflight[p] IN
         bot_sessions' =
            IF executed
            THEN [bot_sessions EXCEPT
                    ![m.session_id] = ReplacedRow(bot_sessions[m.session_id], m)]
            ELSE bot_sessions
    /\ inflight' = [inflight EXCEPT ![p] = NoMsg]
    /\ lastEvent' = "none"
    /\ UNCHANGED <<nextSession, bot_process, bot_state, threads, procs,
                   startReq, stopReq, monitors, ib, ab, ev, rc, cy, tq, lk>>

\* -------------------------------------------------------- real_atoz_bot
\* update_database(session_id, status, total_checks, total_accepted,
\* total_rejected, login_status): a POST of type database_update.  The
\* worker waits for the response before it goes on.
DatabaseUpdate(w, status, login_status) ==
    [session_id |-> w.sid, status |-> status, login_status |-> login_status,
     total_checks |-> w.check_count, total_accepted |-> w.total_accepted,
     total_rejected |-> w.total_rejected]

\* `python real_atoz_bot.py`: main() names its own session (a timestamp).
\* bot_loop never gets to start it (see BotLoop); an operator or
\* test_real_atoz_bot.py does.
RealBotLaunch ==
    /\ NextProc <= MaxProcs
    /\ Cardinality({q \in ProcIds : procs[q].kind = "real_atoz_bot"}) < MaxRealBots
    /\ nextSession < MaxSessions
    /\ LET p == NextProc
           sid == nextSession + 1 IN
       /\ procs' = [procs EXCEPT
                      ![p] = [NoProc EXCEPT !.kind = "real_atoz_bot",
                                            !.alive = TRUE, !.by = "operator",
                                            !.sid = sid, !.phase = "boot"]]
       /\ nextSession' = sid
    /\ UNCHANGED <<bot_sessions, bot_process, bot_state, threads, inflight,
                   startReq, stopReq, monitors, lastEvent, ib, ab, ev, rc, cy, tq, lk>>

RealBotReady(p, phase) ==
    /\ procs[p].kind = "real_atoz_bot"
    /\ procs[p].alive
    /\ procs[p].phase = phase
    /\ inflight[p] = NoMsg

\* update_database(session_id, "starting", 0, 0, 0, "attempting")
RealBotBoot(p) ==
    /\ RealBotReady(p, "boot")
    /\ inflight' = [inflight EXCEPT
                      ![p] = DatabaseUpdate(procs[p], "starting", "attempting")]
    /\ procs' = [procs EXCEPT ![p].phase = "login"]
    /\ UNCHANGED <<bot_sessions, nextSession, bot_process, bot_state, threads,
                   startReq, stopReq, monitors, lastEvent, ib, ab, ev, rc, cy, tq, lk>>

\* perform_atoz_login and the update that follows it
RealBotLogin(p) ==
    /\ RealBotReady(p, "login")
    /\ \E login_successful \in BOOLEAN :
         IF login_successful
         THEN /\ inflight' = [inflight EXCEPT
                                ![p] = DatabaseUpdate(procs[p], "running", "success")]
              /\ procs' = [procs EXCEPT ![p].phase = "cycle"]
         ELSE /\ inflight' = [inflight EXCEPT
                                ![p] = DatabaseUpdate(procs[p], "error", "failed")]
              /\ procs' = [procs EXCEPT ![p].phase = "final"]
    /\ UNCHANGED <<bot_sessions, nextSession, bot_process, bot_state, threads,
                   startReq, stopReq, monitors, lastEvent, ib, ab, ev, rc, cy, tq, lk>>

\* One turn of `while True`: check_jobs_on_page, the totals, the update
RealBotCycle(p) ==
    /\ RealBotReady(p, "cycle")
    /\ procs[p].check_count < MaxChecks
    /\ \E accepted \in 0..1 :
         LET rejected == 1 - accepted
             w == [procs[p] EXCEPT
                     !.check_count = @ + 1,
                     !.total_accepted = @ + accepted,
                     !.total_rejected = @ + rejected] IN
         /\ procs' = [procs EXCEPT ![p] = w]
         /\ inflight' = [inflight EXCEPT
                           ![p] = DatabaseUpdate(w, "running", "success")]
    /\ UNCHANGED <<bot_sessions, nextSession, bot_process, bot_state, threads,
                   startReq, stopReq, monitors, lastEvent, ib, ab, ev, rc, cy, tq, lk>>

\* The finally of main(): update_database(session_id, "stopped", ...,
\* "success"), then the process ends
RealBotFinal(p) ==
    /\ RealBotReady(p, "final")
    /\ inflight' = [inflight EXCEPT
                      ![p] = DatabaseUpdate(procs[p], "stopped", "success")]
    /\ procs' = [procs EXCEPT ![p].phase = "exit"]
    /\ UNCHANGED <<bot_sessions, nextSession, bot_process, bot_state, threads,
                   startReq, stopReq, monitors, lastEvent, ib, ab, ev, rc, cy, tq, lk>>

RealBotExit(p) ==
    /\ RealBotReady(p, "exit")
    /\ procs' = [procs EXCEPT ![p] = Ended(procs[p])]
    /\ UNCHANGED <<bot_sessions, nextSession, bot_process, bot_state, threads,
                   inflight, startReq, stopReq, monitors, lastEvent, ib, ab, ev, rc, cy, tq, lk>>

\* ------------------------------------------------------------ smart_bot
\* smart_bot.py posts nothing to the controller (send_status_update only
\* logs).  Its process can end on its own: sys.exit(1) in __main__.
SmartBotExit(p) ==
    /\ procs[p].kind = "smart_bot"
    /\ procs[p].alive
    /\ procs' = [procs EXCEPT ![p] = Ended(procs[p])]
    /\ UNCHANGED <<bot_sessions, nextSession, bot_process, bot_state, threads,
                   inflight, startReq, stopReq, monitors, lastEvent, ib, ab, ev, rc, cy, tq, lk>>

\* ------------------------------------------------------- integrated_bot
\* integrated_bot.py writes bot_sessions itself (update_database opens its
\* own database connection); it posts no database_update.
IbInit ==
    [pc |-> "off", sid |-> 0, iteration |-> 0, rows |-> 0, job |-> 0,
     accepted |-> 0, rejected |-> 0, total_checks |-> 0, total_accepted |-> 0,
     total_rejected |-> 0, login_successful |-> FALSE]

\* update_database's UPDATE bot_sessions SET status, login_status,
\* total_checks, total_accepted, total_rejected, updated_at WHERE id = ...
IbUpdateRow(row, status, checks, accepted, rejected, login_status) ==
    [row EXCEPT !.status = status, !.login_status = login_status,
                !.total_checks = checks, !.total_accepted = accepted,
                !.total_rejected = rejected]

IbUnchanged ==
    UNCHANGED <<bot_process, bot_state, threads, procs, inflight, startReq,
                stopReq, monitors, lastEvent, ab, ev, rc, cy, tq, lk>>

\* main() up to its first update_database, for a session id that starts
\* with 'test-session-' and names no row yet: the row is inserted, then
\* updated to starting / attempting.
IbStart ==
    /\ ib.pc = "off"
    /\ nextSession < MaxSessions
    /\ LET sid == nextSession + 1 IN
       /\ bot_sessions' = [bot_sessions EXCEPT
                             ![sid] = IbUpdateRow(NewSessionRow, "starting",
                                                  0, 0, 0, "attempting")]
       /\ nextSession' = sid
       /\ ib' = [ib EXCEPT !.pc = "login", !.sid = sid]
    /\ IbUnchanged

\* try_login and the update that follows; a failed login returns through
\* the finally of main(), which writes error / failed once more.
IbLogin ==
    /\ ib.pc = "login"
    /\ \E ok \in BOOLEAN :
         IF ok
         THEN /\ bot_sessions' = [bot_sessions EXCEPT
                                    ![ib.sid] = IbUpdateRow(@, "running", 0, 0, 0,
                                                            "success")]
              /\ ib' = [ib EXCEPT !.pc = "loop", !.login_successful = TRUE]
         ELSE /\ bot_sessions' = [bot_sessions EXCEPT
                                    ![ib.sid] = IbUpdateRow(@, "error", 0, 0, 0,
                                                            "failed")]
              /\ ib' = [ib EXCEPT !.pc = "done"]
    /\ UNCHANGED nextSession
    /\ IbUnchanged

\* The head of one turn of `while True` and of check_jobs_on_page: the
\* cycle's own accepted and rejected start at 0, get_matched_rows returns
\* some rows.
IbCheckJobs ==
    /\ ib.pc = "loop"
    /\ ib.iteration < MaxIterations
    /\ \E n \in 0..MaxJobs :
         ib' = [ib EXCEPT !.pc = "jobs", !.iteration = @ + 1, !.rows = n,
                          !.job = 0, !.accepted = 0, !.rejected = 0]
    /\ UNCHANGED <<bot_sessions, nextSession>>
    /\ IbUnchanged

\* The counts check_jobs_on_page writes after a job it accepted or rejected
\* itself: update_database(session_id, "running", accepted + rejected,
\* accepted, rejected, "success") with the counts of this cycle.
IbJobRow(row, accepted, rejected) ==
    IbUpdateRow(row, "running", accepted + rejected, accepted, rejected, "success")

\* One row of the `for i, row in enumerate(matched_rows)` loop.  A row that
\* is no telephone job or lacks parameters counts as rejected and skips the
\* update (continue); the others are accepted or rejected and written.
IbJob ==
    /\ ib.pc = "jobs"
    /\ ib.job < ib.rows
    /\ \E outcome \in {"filtered", "accepted", "rejected"} :
         LET a == ib.accepted + (IF outcome = "accepted" THEN 1 ELSE 0)
             r == ib.rejected + (IF outcome = "accepted" THEN 0 ELSE 1) IN
         /\ ib' = [ib EXCEPT !.job = @ + 1, !.accepted = a, !.rejected = r]
         /\ bot_sessions' =
              IF outcome = "filtered" THEN bot_sessions
              ELSE [bot_sessions EXCEPT ![ib.sid] = IbJobRow(@, a, r)]
    /\ UNCHANGED nextSession
    /\ IbUnchanged

\* check_jobs_on_page returns; main() adds the cycle to its totals and
\* writes them.
IbCycleEnd ==
    /\ ib.pc = "jobs"
    /\ ib.job = ib.rows
    /\ LET w == [ib EXCEPT !.pc = "loop",
                           !.total_checks = @ + 1,
                           !.total_accepted = @ + ib.accepted,
                           !.total_rejected = @ + ib.rejected] IN
       /\ ib' = w
       /\ bot_sessions' = [bot_sessions EXCEPT
                             ![ib.sid] = IbUpdateRow(@, "running", w.total_checks,
                                                     w.total_accepted,
                                                     w.total_rejected, "success")]
    /\ UNCHANGED nextSession
    /\ IbUnchanged

\* SIGTERM or SIGINT: signal_handler calls sys.exit(0), and the finally of
\* main() writes the final status with the totals: stopped after a login,
\* error before it.
IbSignal ==
    /\ ib.pc \in {"login", "loop", "jobs"}
    /\ ib' = [ib EXCEPT !.pc = "done"]
    /\ bot_sessions' = [bot_sessions EXCEPT
                          ![ib.sid] = IbUpdateRow(@,
                              IF ib.login_successful THEN "stopped" ELSE "error",
                              ib.total_checks, ib.total_accepted, ib.total_rejected,
                              IF ib.login_successful THEN "success" ELSE "failed")]
    /\ UNCHANGED nextSession
    /\ IbUnchanged

\* ------------------------------------------------------------- atoz_bot
\* run_bot_with_session of atoz_bot.py.  Its posts carry the key update_type
\* where the controller reads type, so they change nothing in the controller.
max_login_retries == 3
max_consecutive_errors == 10

\* report: the status of the last update_database_stats.  attempts, tries,
\* startup_login, failed_in_a_row and interrupted are history: iterations of
\* the login loop begun, try_login calls of that loop, whether one of them
\* returned True, failing cycles in a row, KeyboardInterrupt seen.
AbInit ==
    [pc |-> "off", login_attempt |-> 0, login_successful |-> FALSE,
     cycle |-> 0, consecutive_errors |-> 0, total_checks |-> 0,
     report |-> "none", attempts |-> 0, tries |-> 0, startup_login |-> FALSE,
     failed_in_a_row |-> 0, interrupted |-> FALSE,
     event |-> "none", slept |-> 0, backoff |-> FALSE]

AbUnchanged ==
    UNCHANGED <<bot_sessions, nextSession, bot_process, bot_state, threads,
                procs, inflight, startReq, stopReq, monitors, lastEvent, ib, ev, rc, cy, tq, lk>>

\* The first update_database_stats and the browser launch; a launch that
\* raises is caught by the outer except Exception.
AbStart ==
    /\ ab.pc = "off"
    /\ \E launched \in BOOLEAN :
         ab' = IF launched
               THEN [ab EXCEPT !.pc = "login", !.report = "starting"]
               ELSE [ab EXCEPT !.pc = "finally", !.report = "error"]
    /\ AbUnchanged

\* The mutant of LoginLoopRuns: range(max_login_retries + 1).
LoginLoopRunsOnceMore(w) ==
    w.login_attempt <= max_login_retries /\ ~w.login_successful

\* for login_attempt in range(max_login_retries), left by break on success
LoginLoopRuns(w) ==
    w.login_attempt < max_login_retries /\ ~w.login_successful

\* One iteration of the login loop.  page.goto raises, or lands on an error
\* page, or on the portal; try_login is called on the portal, and on an
\* error page in the last iteration.
AbLoginAttempt ==
    /\ ab.pc = "login"
    /\ LoginLoopRuns(ab)
    /\ \E outcome \in {"goto_raises", "error_page", "page_ok"}, result \in BOOLEAN :
         LET last == ~(ab.login_attempt < max_login_retries - 1)
             called == outcome = "page_ok" \/ (outcome = "error_page" /\ last)
             ok == called /\ result IN
         ab' = [ab EXCEPT !.login_successful = ok,
                          !.login_attempt = IF ok THEN @ ELSE @ + 1,
                          !.attempts = @ + 1,
                          !.tries = IF called THEN @ + 1 ELSE @,
                          !.startup_login = ok]
    /\ AbUnchanged

\* After the loop: report error and return (into finally), or report
\* running and enter `while True`.
AbLoginDone ==
    /\ ab.pc = "login"
    /\ ~LoginLoopRuns(ab)
    /\ ab' = IF ab.login_successful
             THEN [ab EXCEPT !.pc = "loop", !.report = "running"]
             ELSE [ab EXCEPT !.pc = "finally", !.report = "error"]
    /\ AbUnchanged

\* cycle += 1; consecutive_errors = 0
AbCycleStart ==
    /\ ab.pc = "loop"
    /\ ab.cycle < MaxCycles
    /\ ab' = [ab EXCEPT !.pc = "cycle", !.cycle = @ + 1,
                        !.consecutive_errors = 0]
    /\ AbUnchanged

\* The body of the try runs to its end.
AbCycleOk ==
    /\ ab.pc = "cycle"
    /\ ab' = [ab EXCEPT !.pc = "loop", !.total_checks = @ + 1,
                        !.report = "running", !.failed_in_a_row = 0]
    /\ AbUnchanged

\* The body raises an Exception, before or after total_checks += 1;
\* consecutive_errors += 1.
AbCycleRaise ==
    /\ ab.pc = "cycle"
    /\ \E checked \in BOOLEAN :
         ab' = [ab EXCEPT !.pc = "handler",
                          !.total_checks = IF checked THEN @ + 1 ELSE @,
                          !.consecutive_errors = @ + 1,
                          !.failed_in_a_row = @ + 1]
    /\ AbUnchanged

\* The mutant of CycleErrorHandled: break where the code has continue.
CycleErrorGivesUp(w, playwright, reload_ok, restart_ok, relogin) ==
    IF playwright /\ ~reload_ok /\ ~(restart_ok /\ relogin)
    THEN [w EXCEPT !.pc = "finally"]
    ELSE [w EXCEPT !.pc = "loop"]

Min(a, b) == IF a <= b THEN a ELSE b

\* wait_time = min(5 + (consecutive_errors * 2), 30)
wait_time(consecutive_errors) == Min(5 + (consecutive_errors * 2), 30)

\* The mutant of CycleErrorHandled: a new browser without try_login, its
\* failure ignored.
CycleErrorNoRelogin(w, playwright, reload_ok, restart_ok, relogin) ==
    [w EXCEPT !.pc = "loop", !.event = "cycle_error",
              !.slept = wait_time(w.consecutive_errors), !.backoff = TRUE]

\* except Exception as cycle_error, after the count: the ceiling branch, the
\* recovery from a Playwright error (reload; else a new browser and
\* try_login), the backoff.  Every branch ends at the top of `while True`.
\* event is the last status update the handler sent, slept the seconds of
\* its time.sleep, backoff whether that sleep was the one of wait_time.
CycleErrorHandled(w, playwright, reload_ok, restart_ok, relogin) ==
    IF w.consecutive_errors >= max_consecutive_errors
    THEN [w EXCEPT !.pc = "loop", !.consecutive_errors = 0,
                   !.event = "max_errors_reached", !.slept = 30,
                   !.backoff = FALSE]
    ELSE IF playwright /\ ~reload_ok /\ restart_ok /\ ~relogin
    THEN [w EXCEPT !.pc = "loop", !.login_successful = FALSE,
                   !.event = "cycle_error", !.slept = 10, !.backoff = FALSE]
    ELSE IF playwright /\ ~reload_ok /\ ~restart_ok
    THEN [w EXCEPT !.pc = "loop",
                   !.event = "cycle_error", !.slept = 15, !.backoff = FALSE]
    ELSE [w EXCEPT !.pc = "loop",
                   !.login_successful =
                       IF playwright /\ ~reload_ok THEN TRUE ELSE @,
                   !.event = "cycle_error",
                   !.slept = wait_time(w.consecutive_errors),
                   !.backoff = TRUE]

AbHandle ==
    /\ ab.pc = "handler"
    /\ \E playwright, reload_ok, restart_ok, relogin \in BOOLEAN :
         ab' = CycleErrorHandled(ab, playwright, reload_ok, restart_ok, relogin)
    /\ AbUnchanged

\* except KeyboardInterrupt: update_database_stats(..., "stopped")
AbInterrupt ==
    /\ ab.pc \in {"login", "loop", "cycle", "handler"}
    /\ ab' = [ab EXCEPT !.pc = "finally", !.report = "stopped",
                        !.interrupted = TRUE]
    /\ AbUnchanged

\* finally: update_database_stats(..., "stopped")
AbFinally ==
    /\ ab.pc = "finally"
    /\ ab' = [ab EXCEPT !.pc = "done", !.report = "stopped"]
    /\ AbUnchanged

\* ------------------------------------------------ BotState and its lock
StatusReqs == 1..MaxStatusReqs

\* bot_state = BotState(); bot_state.reset().  holder is the method that
\* holds self.lock across a thread.join; thread is self.thread ("none" is
\* None) and, while it is set, whether the thread is alive.
LkInit ==
    [running |-> FALSE, thread |-> "none", holder |-> "none",
     req |-> [r \in StatusReqs |-> "idle"],
     is_running |-> [r \in StatusReqs |-> FALSE]]

LkUnchanged ==
    UNCHANGED <<bot_sessions, nextSession, bot_process, bot_state, threads,
                procs, inflight, startReq, stopReq, monitors, lastEvent, ib,
                ab, ev, rc, cy, tq>>

\* BotState.start, called by toggle_bot: no join under the lock.
LkStart ==
    /\ lk.holder = "none"
    /\ lk.thread # "alive"
    /\ lk' = [lk EXCEPT !.running = TRUE, !.thread = "alive"]
    /\ LkUnchanged

\* bot_loop returns.
LkThreadEnd ==
    /\ lk.thread = "alive"
    /\ lk' = [lk EXCEPT !.thread = "dead"]
    /\ LkUnchanged

\* BotState.stop (by toggle_bot) and BotState.reset (by force_reset_bot) up
\* to their join: `with self.lock`, self.running = False, and for a live
\* thread self.thread.join(timeout=...), the lock held.
LkJoinEnter(method) ==
    /\ lk.holder = "none"
    /\ lk' = IF lk.thread = "alive"
             THEN [lk EXCEPT !.running = FALSE, !.holder = method]
             ELSE [lk EXCEPT !.running = FALSE, !.thread = "none"]
    /\ LkUnchanged

\* join returns, the thread ended or the timeout over (5 s in stop, 2 s in
\* reset); self.thread = None; the lock is released.
LkJoinLeave ==
    /\ lk.holder # "none"
    /\ lk' = [lk EXCEPT !.thread = "none", !.holder = "none"]
    /\ LkUnchanged

\* A GET /status request arrives.
LkStatusArrive(r) ==
    /\ lk.req[r] # "waiting"
    /\ lk' = [lk EXCEPT !.req[r] = "waiting"]
    /\ LkUnchanged

\* get_bot_status: is_running() takes self.lock, so it runs when no method
\* holds it; a dead thread's handle is dropped.
LkStatusServe(r) ==
    /\ lk.req[r] = "waiting"
    /\ lk.holder = "none"
    /\ lk' = [lk EXCEPT !.req[r] = "done",
                        !.is_running[r] = (lk.thread = "alive"),
                        !.running = IF lk.thread = "dead" THEN FALSE ELSE @,
                        !.thread = IF lk.thread = "dead" THEN "none" ELSE @]
    /\ LkUnchanged

\* --------------------------- run_bot_with_session: the body of a cycle
CyInit ==
    [pc |-> "off", sid |-> 0, cap |-> 0, cycle |-> 0, jobs |-> 0, i |-> 0,
     total_checks |-> 0, total_accepted |-> 0, total_rejected |-> 0,
     accepted_this_cycle |-> 0, rejected_this_cycle |-> 0,
     performed |-> 0, performed_this_cycle |-> 0, completed |-> FALSE]

CyUnchanged ==
    UNCHANGED <<nextSession, bot_process, bot_state, threads, procs, inflight,
                startReq, stopReq, monitors, lastEvent, ib, ab, ev, rc, tq, lk>>

\* update_database_stats: the JSON body it posts to /api/bot/realtime-update
StatsUpdate(session_id, total_checks, total_accepted, total_rejected, status) ==
    [session_id |-> session_id,
     update_type |-> "database_update",
     data |-> [session_id |-> session_id, status |-> status,
               total_checks |-> total_checks,
               total_accepted |-> total_accepted,
               total_rejected |-> total_rejected,
               login_status |-> IF status = "running" THEN "success"
                                ELSE "failed"]]

\* update_data.get('type', '')
GetType(update_data) ==
    IF "type" \in DOMAIN update_data THEN update_data.type ELSE ""

\* realtime_update on the body of a POST: the table it leaves.  `executed`
\* is whether the engine executes INSERT OR REPLACE (see realtime_update).
RealtimeUpdateRows(tbl, update_data, executed) ==
    IF /\ GetType(update_data) = "database_update"
       /\ update_data.data.session_id # 0
       /\ executed
    THEN [tbl EXCEPT ![update_data.data.session_id] =
                        ReplacedRow(tbl[update_data.data.session_id],
                                    update_data.data)]
    ELSE tbl

\* run_bot_with_session(session_id), MAX_ACCEPT_PER_RUN as config.py has it,
\* up to the loop.
CyLaunch ==
    /\ cy.pc = "off"
    /\ \E sid \in SessionIds, cap \in 0..MaxCap :
         cy' = [cy EXCEPT !.pc = "loop", !.sid = sid, !.cap = cap]
    /\ UNCHANGED bot_sessions
    /\ CyUnchanged

\* The top of the try: cycle += 1, navigate_to_job_board, extract_jobs,
\* total_checks += 1; accepted_this_cycle = rejected_this_cycle = 0.  The
\* navigation or the extraction may raise: the handler leads back to the
\* top of the loop.
CyCycleStart ==
    /\ cy.pc = "loop"
    /\ cy.cycle < MaxBoardCycles
    /\ \E raised \in BOOLEAN, n \in 0..MaxJobs :
         cy' = IF raised
               THEN [cy EXCEPT !.cycle = @ + 1, !.completed = FALSE,
                               !.performed_this_cycle = 0]
               ELSE [cy EXCEPT !.pc = "jobs", !.cycle = @ + 1, !.jobs = n,
                               !.i = 0, !.total_checks = @ + 1,
                               !.accepted_this_cycle = 0,
                               !.rejected_this_cycle = 0,
                               !.performed_this_cycle = 0,
                               !.completed = FALSE]
    /\ UNCHANGED bot_sessions
    /\ CyUnchanged

\* The mutant of CapReached: the loop goes on at the cap.
CapExceeded(accepted_this_cycle, cap) == accepted_this_cycle > cap

\* if accepted_this_cycle >= MAX_ACCEPT_PER_RUN: break
CapReached(accepted_this_cycle, cap) == accepted_this_cycle >= cap

JobOutcomes ==
    {"skipped", "rejected", "accept_failed", "accepted", "raised",
     "accepted_raised"}

\* accept_from_board(page, ref) of data_processor: True when it has clicked
\* the Accept button of the job's row, False when it has not.
accept_from_board(clicked) == clicked

\* The outcomes in which accept_from_board is called, and the answer it
\* gave in each.
AcceptCalled(outcome) ==
    outcome \in {"accept_failed", "accepted", "accepted_raised"}

AcceptAnswer(outcome) == outcome # "accept_failed"

\* One turn of `for i, job in enumerate(jobs)` past the cap test:
\*   skipped          one of the `continue`s before accept_from_board;
\*   rejected         reject_on_detail answered True;
\*   accept_failed    accept_from_board answered False: continue;
\*   accepted         accept_from_board answered True and the page settled;
\*   raised           a call raised before accept_from_board;
\*   accepted_raised  accept_from_board answered True and
\*                    page.wait_for_load_state("networkidle") raised.
\* An exception leaves the try for the handler, which leads to the top of
\* the loop; the cycle's tallies are locals that the next cycle zeroes.
\* `clicked` is whether Accept was clicked on the portal.
JobStep(w, outcome, clicked) ==
    LET done == IF clicked THEN 1 ELSE 0
        v == [w EXCEPT !.performed = @ + done,
                       !.performed_this_cycle = @ + done] IN
    CASE outcome \in {"skipped", "accept_failed"} -> [v EXCEPT !.i = @ + 1]
      [] outcome = "rejected" ->
           [v EXCEPT !.i = @ + 1, !.rejected_this_cycle = @ + 1]
      [] outcome = "accepted" ->
           [v EXCEPT !.i = @ + 1, !.accepted_this_cycle = @ + 1]
      [] outcome \in {"raised", "accepted_raised"} -> [v EXCEPT !.pc = "loop"]

CyJob ==
    /\ cy.pc = "jobs"
    /\ cy.i < cy.jobs
    /\ ~CapReached(cy.accepted_this_cycle, cy.cap)
    /\ \E outcome \in JobOutcomes, clicked \in BOOLEAN :
         /\ IF AcceptCalled(outcome)
            THEN accept_from_board(clicked) = AcceptAnswer(outcome)
            ELSE ~clicked
         /\ cy' = JobStep(cy, outcome, clicked)
    /\ UNCHANGED bot_sessions
    /\ CyUnchanged

\* After the for loop: the totals, update_database_stats(..., "running")
\* and, where the POST reaches the controller, realtime_update.
CyCycleEnd ==
    /\ cy.pc = "jobs"
    /\ cy.i = cy.jobs \/ CapReached(cy.accepted_this_cycle, cy.cap)
    /\ LET total_accepted == cy.total_accepted + cy.accepted_this_cycle
           total_rejected == cy.total_rejected + cy.rejected_this_cycle IN
       /\ cy' = [cy EXCEPT !.pc = "loop", !.total_accepted = total_accepted,
                           !.total_rejected = total_rejected,
                           !.completed = TRUE]
       /\ \E delivered, executed \in BOOLEAN :
            bot_sessions' =
               IF delivered
               THEN RealtimeUpdateRows(
                        bot_sessions,
                        StatsUpdate(cy.sid, cy.total_checks, total_accepted,
                                    total_rejected, "running"),
                        executed)
               ELSE bot_sessions
    /\ CyUnchanged

\* ----------------------------------------------- should_accept_job
\* Python strings are sequences of one-character strings.
UpperLetters ==
    <<"A", "B", "C", "D", "E", "F", "G", "H", "I", "J", "K", "L", "M",
      "N", "O", "P", "Q", "R", "S", "T", "U", "V", "W", "X", "Y", "Z">>
LowerLetters ==
    <<"a", "b", "c", "d", "e", "f", "g", "h", "i", "j", "k", "l", "m",
      "n", "o", "p", "q", "r", "s", "t", "u", "v", "w", "x", "y", "z">>
DigitChars == <<"0", "1", "2", "3", "4", "5", "6", "7", "8", "9">>

\* str.lower, on the letters A to Z
LowerChar(c) ==
    IF \E i \in 1..Len(UpperLetters) : UpperLetters[i] = c
    THEN LowerLetters[CHOOSE i \in 1..Len(UpperLetters) : UpperLetters[i] = c]
    ELSE c

Lower(s) == [i \in 1..Len(s) |-> LowerChar(s[i])]

\* str.strip, for the blank
Strip(s) ==
    LET kept == {i \in 1..Len(s) : s[i] # " "} IN
    IF kept = {} THEN <<>>
    ELSE SubSeq(s, CHOOSE i \in kept : \A j \in kept : i <= j,
                   CHOOSE i \in kept : \A j \in kept : i >= j)

\* sub in s
Contains(sub, s) ==
    \E i \in 1..(Len(s) - Len(sub) + 1) : SubSeq(s, i, i + Len(sub) - 1) = sub

IsDigit(c) == \E i \in 1..Len(DigitChars) : DigitChars[i] = c

DigitValue(c) == (CHOOSE i \in 1..Len(DigitChars) : DigitChars[i] = c) - 1

\* The number a string of digits denotes.
RECURSIVE Decimal(_)
Decimal(ds) ==
    IF ds = <<>> THEN 0
    ELSE Decimal(SubSeq(ds, 1, Len(ds) - 1)) * 10 + DigitValue(ds[Len(ds)])

\* ''.join(filter(str.isdigit, duration))
DigitsOf(s) == SelectSeq(s, IsDigit)

\* job_data.get(key, '')
Get(job_data, key) == IF key \in DOMAIN job_data THEN job_data[key] ELSE <<>>

\* The part of s before the first c (all of s if there is none) and the
\* part after it.
Before(s, c) ==
    IF \E i \in 1..Len(s) : s[i] = c
    THEN SubSeq(s, 1, (CHOOSE i \in 1..Len(s) :
                         s[i] = c /\ \A j \in 1..(i - 1) : s[j] # c) - 1)
    ELSE s

After(s, c) ==
    IF \E i \in 1..Len(s) : s[i] = c
    THEN SubSeq(s, (CHOOSE i \in 1..Len(s) :
                      s[i] = c /\ \A j \in 1..(i - 1) : s[j] # c) + 1, Len(s))
    ELSE <<>>

\* A field of a date or time: one to width digits.
IsNumber(s, width) ==
    /\ Len(s) >= 1
    /\ Len(s) <= width
    /\ \A i \in 1..Len(s) : IsDigit(s[i])

DaysInMonth(y, m) ==
    IF m \in {4, 6, 9, 11} THEN 30
    ELSE IF m # 2 THEN 31
    ELSE IF (y % 4 = 0 /\ y % 100 # 0) \/ y % 400 = 0 THEN 29
    ELSE 28

\* datetime.strptime(s, "%Y-%m-%d %H:%M"): <<year, month, day, hour, minute,
\* 0>>, or <<>> where strptime raises ValueError.
strptime(s) ==
    LET date == Before(s, " ")
        clock == Strip(After(s, " "))
        Y == Before(date, "-")
        m == Before(After(date, "-"), "-")
        d == After(After(date, "-"), "-")
        H == Before(clock, ":")
        M == After(clock, ":") IN
    IF /\ IsNumber(Y, 4) /\ Len(Y) = 4 /\ Decimal(Y) >= 1
       /\ IsNumber(m, 2) /\ Decimal(m) \in 1..12
       /\ IsNumber(d, 2) /\ Decimal(d) \in 1..DaysInMonth(Decimal(Y), Decimal(m))
       /\ IsNumber(H, 2) /\ Decimal(H) \in 0..23
       /\ IsNumber(M, 2) /\ Decimal(M) \in 0..59
    THEN <<Decimal(Y), Decimal(m), Decimal(d), Decimal(H), Decimal(M), 0>>
    ELSE <<>>

\* a < b for two datetimes <<year, month, day, hour, minute, second>>
DatetimeLess(a, b) ==
    \E i \in 1..6 : a[i] < b[i] /\ \A j \in 1..(i - 1) : a[j] = b[j]

required_fields ==
    <<"language", "duration", "ref", "submitted", "appt_date", "appt_time">>

excluded_keywords ==
    {<<"f", "a", "c", "e", "-", "t", "o", "-", "f", "a", "c", "e">>,
     <<"f", "a", "c", "e", " ", "t", "o", " ", "f", "a", "c", "e">>,
     <<"i", "n", "-", "p", "e", "r", "s", "o", "n">>,
     <<"o", "n", "s", "i", "t", "e">>,
     <<"p", "h", "y", "s", "i", "c", "a", "l">>,
     <<"o", "f", "f", "i", "c", "e">>}

\* The fields of job_data that are missing_fields in should_accept_job.
MissingFields(job_data) ==
    {required_fields[i] : i \in {j \in 1..Len(required_fields) :
                                   Strip(Get(job_data, required_fields[j])) = <<>>}}

\* should_accept_job(job_data, details_text) when datetime.now() is now: the
\* number of the check that rejects, 0 when the job is accepted.
RejectingCheck(job_data, details_text, now) ==
    LET language == Strip(Lower(Get(job_data, "language")))
        duration == Strip(Get(job_data, "duration"))
        status == Strip(Lower(Get(job_data, "status")))
        job_type == Strip(Lower(Get(job_data, "job_type")))
        appt_date == Strip(Get(job_data, "appt_date"))
        appt_time == Strip(Get(job_data, "appt_time"))
        duration_num == Decimal(DigitsOf(duration))
        appt_datetime == strptime(appt_date \o <<" ">> \o appt_time) IN
    IF ~Contains(<<"t", "e", "l", "e", "p", "h", "o", "n", "e">>, job_type)
       /\ ~Contains(<<"p", "h", "o", "n", "e">>, job_type) THEN 1
    ELSE IF status # <<"o", "p", "e", "n">> THEN 2
    ELSE IF MissingFields(job_data) # {} THEN 3
    ELSE IF Len(language) < 2 THEN 4
    ELSE IF DigitsOf(duration) = <<>> \/ duration_num < 1 \/ duration_num > 8 THEN 5
    ELSE IF \E keyword \in excluded_keywords : Contains(keyword, Lower(details_text))
    THEN 6
    ELSE IF appt_datetime # <<>> /\ DatetimeLess(appt_datetime, now) THEN 7
    ELSE IF Len(language) > 50 THEN 8
    ELSE 0

should_accept_job(job_data, details_text, now) ==
    RejectingCheck(job_data, details_text, now) = 0

\* The reason check_jobs_on_page works out for a job should_accept_job has
\* turned down, and sends with its job_rejected update.
RejectionReason(job_data) ==
    LET job_type == Lower(Get(job_data, "job_type"))
        status == Lower(Get(job_data, "status"))
        language == IF "language" \in DOMAIN job_data THEN job_data["language"]
                    ELSE <<"U", "n", "k", "n", "o", "w", "n">> IN
    IF ~Contains(<<"t", "e", "l", "e", "p", "h", "o", "n", "e">>, job_type)
       /\ ~Contains(<<"p", "h", "o", "n", "e">>, job_type)
    THEN "Not a telephone interpreting job"
    ELSE IF status # <<"o", "p", "e", "n">> THEN "Job status is {status} (not open)"
    ELSE IF Len(language) < 2 THEN "Invalid or missing language"
    ELSE "Does not meet quality requirements"

\* The required fields a reason of check_jobs_on_page speaks of.
FieldsNamedIn(reason) ==
    IF reason = "Invalid or missing language" THEN {"language"} ELSE {}

\* ------------------------------------------------- the jobs evaluated
\* job_data with key set to value
WithKey(job_data, key, value) ==
    [k \in DOMAIN job_data \cup {key} |-> IF k = key THEN value ELSE job_data[k]]

TelephoneInterpreting ==
    <<"T", "e", "l", "e", "p", "h", "o", "n", "e", " ", "i", "n", "t", "e", "r", "p", "r", "e", "t", "i", "n", "g">>

\* The job of scenario A.
ScenarioA ==
    [category |-> TelephoneInterpreting,
     status |-> <<"m", "a", "t", "c", "h", "e", "d">>,
     ref |-> <<"R", "1">>,
     submitted |-> <<"x">>,
     appt_date |-> <<"2", "0", "9", "9", "-", "0", "1", "-", "0", "1">>,
     appt_time |-> <<"1", "0", ":", "0", "0">>,
     duration |-> <<"1", " ", "h", "o", "u", "r">>,
     language |-> <<"S", "p", "a", "n", "i", "s", "h">>]

\* Scenario A with its category under the key should_accept_job reads.
ScenarioATyped == WithKey(ScenarioA, "job_type", TelephoneInterpreting)

\* A job that passes every check of should_accept_job before its appointment.
OpenJob == WithKey(ScenarioATyped, "status", <<"o", "p", "e", "n">>)

RequiredFieldSet == {required_fields[i] : i \in 1..Len(required_fields)}

\* Scenario A as extract_jobs of atoz_bot.py hands it on, with a view_url.
ViewedJob ==
    WithKey(ScenarioATyped, "view_url", <<"/", "j", "o", "b", "s", "/", "1">>)

\* A face to face job without a ref.
ExcludedIncomplete ==
    WithKey(WithKey(WithKey(ViewedJob, "job_type", <<"F", "a", "c", "e", " ", "t", "o", " ", "F", "a", "c", "e">>),
                    "category", <<"F", "a", "c", "e", " ", "t", "o", " ", "F", "a", "c", "e">>),
            "ref", <<>>)

RemoteTelephoneJob ==
    <<"r", "e", "m", "o", "t", "e", " ", "t", "e", "l", "e", "p", "h", "o", "n", "e", " ", "j", "o", "b">>

\* An open telephone job of an hour and a half.
HourAndAHalfJob ==
    WithKey(OpenJob, "duration", <<"1", ".", "5", " ", "h", "o", "u", "r", "s">>)

Jobs ==
    {ScenarioA, ScenarioATyped, OpenJob, ViewedJob, ExcludedIncomplete,
     HourAndAHalfJob}
    \cup {WithKey(OpenJob, f, <<>>) : f \in RequiredFieldSet}
    \cup {WithKey(ScenarioATyped, f, <<>>) : f \in RequiredFieldSet}
    \cup {WithKey(OpenJob, "duration", d) :
            d \in {<<"3", "0", " ", "m", "i", "n", "u", "t", "e", "s">>,
                   <<"1", "2", " ", "h", "o", "u", "r", "s">>,
                   <<"s", "o", "o", "n">>}}
    \cup {WithKey(OpenJob, "appt_date", d) :
            d \in {<<"2", "0", "2", "0", "-", "0", "1", "-", "0", "1">>,
                   <<"2", "0", "9", "9", "-", "0", "2", "-", "3", "0">>,
                   <<"t", "o", "m", "o", "r", "r", "o", "w">>}}
    \cup {WithKey(OpenJob, "language", <<"S">>),
          WithKey(OpenJob, "status", <<" ", "O", "p", "e", "n", " ">>),
          WithKey(OpenJob, "job_type", <<"P", "h", "o", "n", "e", " ", "c", "a", "l", "l">>)}

DetailTexts ==
    {RemoteTelephoneJob,
     <<"F", "a", "c", "e", "-", "t", "o", "-", "F", "a", "c", "e", " ", "a", "t", " ", "t", "h", "e", " ", "o", "f", "f", "i", "c", "e">>,
     <<>>}

\* Values of datetime.now(): before the appointment of scenario A, at it,
\* one second after it.
Instants ==
    {<<2026, 11, 3, 12, 0, 0>>, <<2099, 1, 1, 10, 0, 0>>, <<2099, 1, 1, 10, 0, 1>>}

EvStart(job_data, details_text) ==
    [pc |-> "extracted", job_data |-> job_data, details_text |-> details_text,
     now |-> <<2026, 11, 3, 12, 0, 0>>, first |-> FALSE, reason |-> "none",
     second |-> FALSE, atoz |-> "none"]

EvUnchanged ==
    UNCHANGED <<bot_sessions, nextSession, bot_process, bot_state, threads,
                procs, inflight, startReq, stopReq, monitors, lastEvent, ib, ab, rc, cy, tq, lk>>

\* check_jobs_on_page for the job: the decision, and the reason if the job is
\* turned down.
EvEvaluate ==
    /\ ev.pc = "extracted"
    /\ LET accept == should_accept_job(ev.job_data, ev.details_text, ev.now) IN
       ev' = [ev EXCEPT !.pc = "decided", !.first = accept,
                        !.reason = IF accept THEN "none"
                                   ELSE RejectionReason(ev.job_data)]
    /\ EvUnchanged

\* One job in the loop `for i, job in enumerate(jobs)` of run_bot_with_session
\* (atoz_bot.py): where the loop leaves the job.  required is whether the
\* configured list of required fields is not empty; params_set, telephone,
\* excluded, rejected and accepted are the answers of is_all_params_set,
\* is_telephone_job, the search of the details text, reject_on_detail and
\* accept_from_board.
JobLoopOutcome(job, required, params_set, telephone, excluded, rejected, accepted) ==
    IF ~Contains(<<"m", "a", "t", "c", "h", "e", "d">>, Lower(Get(job, "status")))
    THEN "status"
    ELSE IF required /\ ~params_set THEN "required_fields"
    ELSE IF Get(job, "view_url") = <<>> THEN "view_url"
    ELSE IF ~telephone
    THEN IF excluded /\ rejected THEN "rejected" ELSE "job_type"
    ELSE IF ~accepted THEN "accept_failed"
    ELSE "accepted"

\* The job goes through the loop of atoz_bot.py.  data_processor and config
\* are not among the files: their answers are inputs.
EvJobLoop ==
    /\ ev.atoz = "none"
    /\ \E required, params_set, telephone, excluded, rejected, accepted \in BOOLEAN :
         ev' = [ev EXCEPT !.atoz = JobLoopOutcome(ev.job_data, required, params_set,
                                                 telephone, excluded, rejected,
                                                 accepted)]
    /\ EvUnchanged

\* Time passes.
EvClock ==
    /\ \E t \in Instants :
         /\ DatetimeLess(ev.now, t)
         /\ ev' = [ev EXCEPT !.now = t]
    /\ EvUnchanged

\* should_accept_job once more, for the same job and details text.
EvEvaluateAgain ==
    /\ ev.pc = "decided"
    /\ ev' = [ev EXCEPT !.pc = "repeated",
                       !.second = should_accept_job(ev.job_data,
                                                    ev.details_text, ev.now)]
    /\ EvUnchanged

\* --------------------------------------------------- redis_bot_control
\* RedisBotStateManager: state and sid are bot:state (or _fallback_state),
\* session is the status in the hash of the current session.  bot_process is
\* the module global of redis_bot_control.  last describes the last
\* start_bot_redis: its session, whether its create_session met a cache that
\* was unavailable or failing, what create_session returned, whether a cache
\* operation raised, whether Popen succeeded.
NoStart ==
    [sid |-> 0, cache_failed |-> FALSE, result |-> FALSE, raised |-> FALSE,
     spawned |-> FALSE]

RcInit ==
    [pc |-> "import", redis_available |-> FALSE, state |-> "none", sid |-> 0,
     session |-> "none", bot_process |-> "none", monitored |-> 0,
     last |-> NoStart]

\* ---- the task queue of RedisBotStateManager ----
\* The uuid4 values add_task can draw, in their lexicographic order.
TaskIds == 1..MaxTasks

\* The priorities the callers pass: the default of POST /tasks/add, a job
\* check, a login.
Priorities == {0, 5, 10}

NoTask == [priority |-> -1, status |-> "none"]

\* The hash bot:task:<id> of every task (the fields the queue logic reads),
\* the sorted sets bot:tasks:queue (member, score) and bot:tasks:processing
\* (members; its scores, the pop times, are never read), the number of times
\* get_next_task has returned each task, the last value it returned (0 for
\* None), and the position of the redis_integrated_bot worker.
TqInit ==
    [tasks |-> [t \in TaskIds |-> NoTask], queue |-> {}, processing |-> {},
     returned |-> [t \in TaskIds |-> 0], next_task |-> 0,
     bot |-> [pc |-> "start", task_id |-> 0]]

TqUnchanged ==
    UNCHANGED <<bot_sessions, nextSession, bot_process, bot_state, threads,
                procs, inflight, startReq, stopReq, monitors, lastEvent, ib,
                ab, ev, rc, cy, lk>>

\* redis ZADD: the member gets the score, replacing its old one.
ZAdd(zset, member, score) ==
    {e \in zset : e.member # member}
        \cup {[member |-> member, score |-> score]}

\* redis ZREM.
ZRem(zset, member) == {e \in zset : e.member # member}

\* redis ZPOPMIN count=1: the list holding the entry of lowest score, ties
\* broken by the member's lexicographic order; the empty list on an empty set.
ZPopMin(zset) ==
    IF zset = {} THEN <<>>
    ELSE <<CHOOSE e \in zset : \A f \in zset :
               \/ e.score < f.score
               \/ (e.score = f.score /\ e.member <= f.member)>>

\* add_task: the score of a task in bot:tasks:queue.
TaskScore(priority) == 0 - priority

\* add_task, with the uuid4 it drew.
add_task(t, task_id, priority) ==
    [t EXCEPT !.tasks[task_id] = [priority |-> priority, status |-> "pending"],
              !.queue = ZAdd(@, task_id, TaskScore(priority))]

\* get_next_task.
get_next_task(t) ==
    LET result == ZPopMin(t.queue) IN
    IF result = <<>> THEN [t EXCEPT !.next_task = 0]
    ELSE LET task_id == result[1].member
             popped == [t EXCEPT !.queue = ZRem(@, task_id)] IN
         IF popped.tasks[task_id] # NoTask
         THEN [popped EXCEPT !.processing = @ \cup {task_id},
                             !.returned[task_id] = @ + 1,
                             !.next_task = task_id]
         ELSE [popped EXCEPT !.next_task = 0]

\* complete_task.
complete_task(t, task_id) ==
    [t EXCEPT !.tasks[task_id].status = "completed",
              !.processing = @ \ {task_id}]

\* fail_task.
fail_task(t, task_id) ==
    [t EXCEPT !.tasks[task_id].status = "failed",
              !.processing = @ \ {task_id}]

\* The ids uuid4 has not produced yet.
FreshIds(t) == {id \in TaskIds : t.tasks[id] = NoTask}

\* start_bot_redis (a login task at 10, a job check at 5) and POST /tasks/add
\* (any priority): one add_task call.
TqApiAdd(priority) ==
    /\ \E task_id \in FreshIds(tq) : tq' = add_task(tq, task_id, priority)
    /\ TqUnchanged

\* perform_login: the login task is added, then the login is attempted.
TqPerformLoginAdd ==
    /\ tq.bot.pc = "start"
    /\ \E task_id \in FreshIds(tq) :
         tq' = [add_task(tq, task_id, 10) EXCEPT
                   !.bot = [pc |-> "login", task_id |-> task_id]]
    /\ TqUnchanged

\* perform_login: the task is completed after a login, failed otherwise;
\* start enters main_loop only after a login.
TqPerformLoginEnd ==
    /\ tq.bot.pc = "login"
    /\ \E success \in BOOLEAN :
         tq' = IF success
               THEN [complete_task(tq, tq.bot.task_id) EXCEPT
                        !.bot = [pc |-> "loop", task_id |-> 0]]
               ELSE [fail_task(tq, tq.bot.task_id) EXCEPT
                        !.bot = [pc |-> "stopped", task_id |-> 0]]
    /\ TqUnchanged

\* main_loop: the job-check task of an iteration is added.
TqMainLoopAdd ==
    /\ tq.bot.pc = "loop"
    /\ \E task_id \in FreshIds(tq) :
         tq' = [add_task(tq, task_id, 5) EXCEPT
                   !.bot = [pc |-> "check", task_id |-> task_id]]
    /\ TqUnchanged

\* main_loop: after check_for_jobs the task is completed, jobs or none.
TqMainLoopComplete ==
    /\ tq.bot.pc = "check"
    /\ tq' = [complete_task(tq, tq.bot.task_id) EXCEPT
                 !.bot = [pc |-> "loop", task_id |-> 0]]
    /\ TqUnchanged

\* A consumer takes the next task.
TqGetNextTask ==
    /\ tq' = get_next_task(tq)
    /\ TqUnchanged

\* The consumer completes or fails the task it was given.
TqConsumerEnd ==
    /\ tq.next_task # 0
    /\ \E success \in BOOLEAN :
         tq' = [(IF success THEN complete_task(tq, tq.next_task)
                 ELSE fail_task(tq, tq.next_task)) EXCEPT !.next_task = 0]
    /\ TqUnchanged

RcUnchanged ==
    UNCHANGED <<bot_process, bot_state, threads, procs, inflight, startReq,
                stopReq, monitors, lastEvent, ib, ab, ev, cy, tq, lk>>

\* RedisBotStateManager(): get_redis() raises when there is no client.
RedisManagerInit ==
    /\ rc.pc = "import"
    /\ \E available \in BOOLEAN :
         rc' = [rc EXCEPT !.pc = "idle", !.redis_available = available]
    /\ UNCHANGED <<bot_sessions, nextSession>>
    /\ RcUnchanged

\* A cache operation gives the manager after it, its return value and
\* whether it raised.  fails: the Redis call inside it raises.
CacheResult(mgr, result, raised) ==
    [mgr |-> mgr, result |-> result, raised |-> raised]

\* The mutant of create_session: without its try.
create_session_unguarded(mgr, sid, status, fails) ==
    IF ~mgr.redis_available \/ fails
    THEN CacheResult(mgr, FALSE, TRUE)
    ELSE CacheResult([mgr EXCEPT !.session = status], TRUE, FALSE)

\* create_session: self.redis is None without Redis, every error is caught
\* and answered with False.
create_session(mgr, sid, status, fails) ==
    IF ~mgr.redis_available \/ fails
    THEN CacheResult(mgr, FALSE, FALSE)
    ELSE CacheResult([mgr EXCEPT !.session = status], TRUE, FALSE)

update_session(mgr, status, fails) ==
    IF ~mgr.redis_available \/ fails
    THEN CacheResult(mgr, FALSE, FALSE)
    ELSE CacheResult([mgr EXCEPT !.session = status], TRUE, FALSE)

\* set_bot_state: without Redis the state goes to _fallback_state.
set_bot_state(mgr, state, sid, fails) ==
    IF mgr.redis_available /\ fails
    THEN CacheResult(mgr, FALSE, FALSE)
    ELSE CacheResult([mgr EXCEPT !.state = state, !.sid = sid], TRUE, FALSE)

\* get_bot_state, its state and its session_id
get_bot_state(mgr, fails) ==
    IF (mgr.redis_available /\ fails) \/ mgr.state = "none"
    THEN [state |-> "stopped", session_id |-> 0]
    ELSE [state |-> mgr.state, session_id |-> mgr.sid]

is_bot_running(mgr, fails) ==
    get_bot_state(mgr, fails).state \in {"starting", "running"}

\* end_session: update_session, then srem and hdel
end_session(mgr, fails) ==
    IF ~mgr.redis_available \/ fails
    THEN CacheResult(update_session(mgr, "stopped", fails).mgr, FALSE, FALSE)
    ELSE CacheResult(update_session(mgr, "stopped", fails).mgr, TRUE, FALSE)

\* POST /start of redis_bot_control.  No await.  A refused start (the bot is
\* running) changes nothing.
start_bot_redis ==
    /\ rc.pc = "idle"
    /\ nextSession < MaxSessions
    /\ \E f0, f1, f2, f3, f4, popenOk \in BOOLEAN :
         LET sid == nextSession + 1
             c1 == create_session(rc, sid, "starting", f1)
             c2 == set_bot_state(c1.mgr, "starting", sid, f2)
             c3 == update_session(c2.mgr, "running", f3)
             c4 == set_bot_state(c3.mgr, "running", sid, f4)
             e1 == set_bot_state(c1.mgr, "error", sid, f2)
             e2 == set_bot_state(c2.mgr, "error", sid, f3)
             last == [sid |-> sid, cache_failed |-> ~rc.redis_available \/ f1,
                      result |-> c1.result, raised |-> c1.raised,
                      spawned |-> ~c1.raised /\ popenOk] IN
         /\ ~is_bot_running(rc, f0)
         /\ nextSession' = sid
         /\ IF c1.raised
            THEN /\ rc' = [e1.mgr EXCEPT !.last = last]
                 /\ bot_sessions' = [bot_sessions EXCEPT
                        ![sid] = [NewSessionRow EXCEPT !.status = "error"]]
            ELSE IF ~popenOk
            THEN /\ rc' = [e2.mgr EXCEPT !.last = last]
                 /\ bot_sessions' = [bot_sessions EXCEPT
                        ![sid] = [NewSessionRow EXCEPT !.status = "error"]]
            ELSE /\ rc' = [c4.mgr EXCEPT !.last = last, !.bot_process = "alive",
                                         !.monitored = sid]
                 /\ bot_sessions' = [bot_sessions EXCEPT
                        ![sid] = [NewSessionRow EXCEPT
                                    !.status = "running",
                                    !.login_status = "attempting"]]
    /\ RcUnchanged

\* The worker of redis_bot_control ends on its own.
RedisWorkerExit ==
    /\ rc.bot_process = "alive"
    /\ rc' = [rc EXCEPT !.bot_process = "dead"]
    /\ UNCHANGED <<bot_sessions, nextSession>>
    /\ RcUnchanged

\* POST /stop of redis_bot_control up to the end of bot_process.wait:
\* set_bot_state(STOPPING), terminate, wait, kill.
StopRedisKill ==
    /\ rc.pc = "idle"
    /\ \E f0, f1 \in BOOLEAN :
         LET current_session_id == get_bot_state(rc, f0).session_id
             c1 == set_bot_state(rc, "stopping", current_session_id, f1) IN
         /\ current_session_id # 0
         /\ rc' = [c1.mgr EXCEPT
                     !.pc = "stopping",
                     !.bot_process = IF @ = "alive" THEN "dead" ELSE @]
    /\ UNCHANGED <<bot_sessions, nextSession>>
    /\ RcUnchanged

\* The rest of stop_bot_redis: the row, end_session, set_bot_state(STOPPED).
\* A failing commit leaves the handler through its except.
StopRedisMark ==
    /\ rc.pc = "stopping"
    /\ \E dbOk, f1, f2 \in BOOLEAN :
         LET c1 == end_session(rc, f1)
             c2 == set_bot_state(c1.mgr, "stopped", 0, f2) IN
         IF dbOk
         THEN /\ bot_sessions' =
                   IF rc.sid \in SessionIds /\ bot_sessions[rc.sid] # NoRow
                   THEN [bot_sessions EXCEPT ![rc.sid].status = "stopped",
                                             ![rc.sid].end_time = 1]
                   ELSE bot_sessions
              /\ rc' = [c2.mgr EXCEPT !.pc = "idle", !.bot_process = "none"]
         ELSE /\ bot_sessions' = bot_sessions
              /\ rc' = [rc EXCEPT !.pc = "idle"]
    /\ UNCHANGED nextSession
    /\ RcUnchanged

\* monitor_bot_process_redis after its loop: the process has ended.  (The
\* loop copies to the row the counters the worker keeps in Redis.)
MonitorRedisEnd ==
    /\ rc.monitored # 0
    /\ rc.pc = "idle"
    /\ rc.bot_process # "alive"
    /\ \E f1, f2 \in BOOLEAN :
         LET c1 == set_bot_state(rc, "stopped", 0, f1)
             c2 == end_session(c1.mgr, f2) IN
         rc' = [c2.mgr EXCEPT !.monitored = 0]
    /\ bot_sessions' =
         IF bot_sessions[rc.monitored].status = "running"
         THEN [bot_sessions EXCEPT ![rc.monitored].status = "stopped",
                                   ![rc.monitored].end_time = 1]
         ELSE bot_sessions
    /\ UNCHANGED nextSession
    /\ RcUnchanged

\* -------------------------------------------------------- specification
Init ==
    /\ bot_sessions = [s \in SessionIds |-> NoRow]
    /\ nextSession = 0
    /\ bot_process = 0
    /\ bot_state = [running |-> FALSE, thread |-> 0, process |-> 0]
    /\ threads = [t \in ThreadIds |-> "none"]
    /\ procs = [p \in ProcIds |-> NoProc]
    /\ inflight = [p \in ProcIds |-> NoMsg]
    /\ startReq = [r \in StartReqs |-> IdleStart]
    /\ stopReq = [pc |-> "idle", sid |-> 0]
    /\ monitors = {}
    /\ lastEvent = "none"
    /\ ib = IbInit
    /\ ab = AbInit
    /\ rc = RcInit
    /\ ev = EvStart(ScenarioA, RemoteTelephoneJob)
    /\ cy = CyInit
    /\ tq = TqInit
    /\ lk = LkInit

\* should_accept_job alone: the job and the details text are drawn.
InitEvaluator ==
    /\ bot_sessions = [s \in SessionIds |-> NoRow]
    /\ nextSession = 0
    /\ bot_process = 0
    /\ bot_state = [running |-> FALSE, thread |-> 0, process |-> 0]
    /\ threads = [t \in ThreadIds |-> "none"]
    /\ procs = [p \in ProcIds |-> NoProc]
    /\ inflight = [p \in ProcIds |-> NoMsg]
    /\ startReq = [r \in StartReqs |-> IdleStart]
    /\ stopReq = [pc |-> "idle", sid |-> 0]
    /\ monitors = {}
    /\ lastEvent = "none"
    /\ ib = IbInit
    /\ ab = AbInit
    /\ rc = RcInit
    /\ cy = CyInit
    /\ tq = TqInit
    /\ lk = LkInit
    /\ \E job_data \in Jobs, details_text \in DetailTexts :
         ev = EvStart(job_data, details_text)

\* The atoz_bot worker started with a session id: the id names a running
\* session of the table, or no session of the table.
InitCycle ==
    /\ \E known \in SUBSET SessionIds :
         bot_sessions = [s \in SessionIds |->
                           IF s \in known
                           THEN [NewSessionRow EXCEPT !.status = "running"]
                           ELSE NoRow]
    /\ nextSession = 0
    /\ bot_process = 0
    /\ bot_state = [running |-> FALSE, thread |-> 0, process |-> 0]
    /\ threads = [t \in ThreadIds |-> "none"]
    /\ procs = [p \in ProcIds |-> NoProc]
    /\ inflight = [p \in ProcIds |-> NoMsg]
    /\ startReq = [r \in StartReqs |-> IdleStart]
    /\ stopReq = [pc |-> "idle", sid |-> 0]
    /\ monitors = {}
    /\ lastEvent = "none"
    /\ ib = IbInit
    /\ ab = AbInit
    /\ rc = RcInit
    /\ ev = EvStart(ScenarioA, RemoteTelephoneJob)
    /\ cy = CyInit
    /\ tq = TqInit
    /\ lk = LkInit

Next ==
    \/ toggle_bot
    \/ \E dbOk \in BOOLEAN : force_reset_bot(dbOk)
    \/ \E t \in ThreadIds : BotLoop(t)
    \/ \E r \in StartReqs : StartCheck(r)
    \/ \E r \in StartReqs : StartCreate(r)
    \/ \E r \in StartReqs : StartSpawn(r)
    \/ \E r \in StartReqs : StartFinish(r)
    \/ \E s \in SessionIds : MonitorTick(s)
    \/ \E s \in SessionIds : MonitorEnd(s)
    \/ StopMark
    \/ StopKill
    \/ get_bot_status
    \/ \E p \in ProcIds : realtime_update(p)
    \/ RealBotLaunch
    \/ \E p \in ProcIds : RealBotBoot(p)
    \/ \E p \in ProcIds : RealBotLogin(p)
    \/ \E p \in ProcIds : RealBotCycle(p)
    \/ \E p \in ProcIds : RealBotFinal(p)
    \/ \E p \in ProcIds : RealBotExit(p)
    \/ \E p \in ProcIds : SmartBotExit(p)

Spec == Init /\ [][Next]_vars

\* The controller and the workers start_bot spawns, without real_atoz_bot
NextStart ==
    \/ toggle_bot
    \/ \E dbOk \in BOOLEAN : force_reset_bot(dbOk)
    \/ \E t \in ThreadIds : BotLoop(t)
    \/ \E r \in StartReqs : StartCheck(r)
    \/ \E r \in StartReqs : StartCreate(r)
    \/ \E r \in StartReqs : StartSpawn(r)
    \/ \E r \in StartReqs : StartFinish(r)
    \/ \E s \in SessionIds : MonitorTick(s)
    \/ \E s \in SessionIds : MonitorEnd(s)
    \/ StopMark
    \/ StopKill
    \/ get_bot_status
    \/ \E p \in ProcIds : SmartBotExit(p)

SpecStart == Init /\ [][NextStart]_vars

\* What the controller does by itself once a request has set it going: the
\* thread of bot_loop runs, a start_bot handler goes on to its end, the
\* monitor task polls, a stop_bot handler goes on to its kill.  No request
\* is bound to come and no worker is bound to end by itself.
FairStart ==
    /\ \A t \in ThreadIds : WF_vars(BotLoop(t))
    /\ \A r \in StartReqs : WF_vars(StartCreate(r))
    /\ \A r \in StartReqs : WF_vars(StartSpawn(r))
    /\ \A r \in StartReqs : WF_vars(StartFinish(r))
    /\ \A s \in SessionIds : WF_vars(MonitorTick(s))
    /\ \A s \in SessionIds : WF_vars(MonitorEnd(s))
    /\ WF_vars(StopKill)

SpecStartFair == Init /\ [][NextStart]_vars /\ FairStart

\* The controller and the real_atoz_bot workers, without start requests
NextCallbacks ==
    \/ toggle_bot
    \/ \E dbOk \in BOOLEAN : force_reset_bot(dbOk)
    \/ \E t \in ThreadIds : BotLoop(t)
    \/ StopMark
    \/ StopKill
    \/ get_bot_status
    \/ \E p \in ProcIds : realtime_update(p)
    \/ RealBotLaunch
    \/ \E p \in ProcIds : RealBotBoot(p)
    \/ \E p \in ProcIds : RealBotLogin(p)
    \/ \E p \in ProcIds : RealBotCycle(p)
    \/ \E p \in ProcIds : RealBotFinal(p)
    \/ \E p \in ProcIds : RealBotExit(p)

SpecCallbacks == Init /\ [][NextCallbacks]_vars

\* The integrated_bot worker and the table
NextIntegrated ==
    \/ IbStart
    \/ IbLogin
    \/ IbCheckJobs
    \/ IbJob
    \/ IbCycleEnd
    \/ IbSignal

SpecIntegrated == Init /\ [][NextIntegrated]_vars

\* The atoz_bot worker alone
NextWorker ==
    \/ AbStart
    \/ AbLoginAttempt
    \/ AbLoginDone
    \/ AbCycleStart
    \/ AbCycleOk
    \/ AbCycleRaise
    \/ AbHandle
    \/ AbInterrupt
    \/ AbFinally

SpecWorker == Init /\ [][NextWorker]_vars

\* The cycles of the atoz_bot worker, job by job, and the table
NextCycle ==
    \/ CyLaunch
    \/ CyCycleStart
    \/ CyJob
    \/ CyCycleEnd

SpecCycle == InitCycle /\ [][NextCycle]_vars

\* BotState, its lock and the GET /status requests
NextLock ==
    \/ LkStart
    \/ LkThreadEnd
    \/ \E method \in {"stop", "reset"} : LkJoinEnter(method)
    \/ LkJoinLeave
    \/ \E r \in StatusReqs : LkStatusArrive(r)
    \/ \E r \in StatusReqs : LkStatusServe(r)

SpecLock == Init /\ [][NextLock]_vars

\* The task queue, its producers and a consumer
NextTasks ==
    \/ \E priority \in Priorities : TqApiAdd(priority)
    \/ TqPerformLoginAdd
    \/ TqPerformLoginEnd
    \/ TqMainLoopAdd
    \/ TqMainLoopComplete
    \/ TqGetNextTask
    \/ TqConsumerEnd

SpecTasks == Init /\ [][NextTasks]_vars

\* redis_bot_control alone
NextRedis ==
    \/ RedisManagerInit
    \/ start_bot_redis
    \/ RedisWorkerExit
    \/ StopRedisKill
    \/ StopRedisMark
    \/ MonitorRedisEnd

SpecRedis == Init /\ [][NextRedis]_vars

NextEvaluator ==
    \/ EvEvaluate
    \/ EvJobLoop
    \/ EvClock
    \/ EvEvaluateAgain

SpecEvaluator == InitEvaluator /\ [][NextEvaluator]_vars

\* ----------------------------------------------------------------- claims
\* C1: in every reachable state, whatever the interleaving of start, stop,
\* toggle and force-reset requests and worker callbacks, at most one session
\* has status starting or running.
C1_AtMostOneActiveSession == Cardinality(ActiveSessions) <= 1

\* C2: under any interleaving of start and toggle requests, at most one
\* worker process is alive at any time.
C2_AtMostOneLiveWorker == Cardinality(LiveProcs) <= 1

\* C3: no sequence of toggle requests leaves more than one live bot_loop
\* thread, or more than one live worker process started by a toggle.
C3_TogglesKeepOneWorker ==
    /\ Cardinality(LiveThreads) <= 1
    /\ Cardinality({p \in LiveProcs : procs[p].by = "toggle"}) <= 1

\* C3 happens: a toggle that stopped the bot was directly followed by a
\* toggle that started it, and the new bot_loop thread is alive.
C3_Witness ==
    /\ lastEvent = "toggle_restart"
    /\ Cardinality(LiveThreads) = 1
    /\ ThreadAlive(bot_state)

C5_CountersNonDecreasing ==
    [][\A s \in SessionIds :
         (bot_sessions[s].status = "running" /\ bot_sessions'[s].status = "running")
         => /\ bot_sessions'[s].total_checks >= bot_sessions[s].total_checks
            /\ bot_sessions'[s].total_accepted >= bot_sessions[s].total_accepted
            /\ bot_sessions'[s].total_rejected >= bot_sessions[s].total_rejected]_vars

\* C6: a start request whose health report holds a critical service as not
\* healthy gets no session row (and so no worker).
C6_UnhealthyStartRejected ==
    \A r \in StartReqs : startReq[r].pc = "created" => ~startReq[r].unhealthy

\* C7: a session that start created has status running only once the login
\* is known to have succeeded.
C7_RunningOnlyAfterLogin ==
    \A s \in SessionIds :
        bot_sessions[s].status = "running" => bot_sessions[s].login_status = "success"

\* C8: when a force-reset whose UPDATE went through has completed, no session
\* has status running or starting and is_running() returns False.
C8_ForceResetClearsSessions ==
    lastEvent = "force_reset"
    => ActiveSessions = {} /\ ~IsRunningResult(bot_state)

\* C8 happens: the force-reset came while a session was in status starting
\* with its login under way (no other request stops a starting session) and
\* no bot_loop thread is tracked or alive afterwards.
C8_Witness ==
    /\ lastEvent = "force_reset"
    /\ \E s \in SessionIds :
         /\ bot_sessions[s].status = "stopped"
         /\ bot_sessions[s].login_status = "attempting"
    /\ bot_state.thread = 0
    /\ LiveThreads = {}

\* C9: when a force-reset has completed, every worker process that start or
\* toggle spawned is dead and bot_process and the BotState handles are None.
C9_ForceResetKillsWorkers ==
    lastEvent \in {"force_reset", "force_reset_nodb"}
    => /\ \A p \in LiveProcs : procs[p].by \notin {"start", "toggle"}
       /\ bot_process = 0
       /\ bot_state.thread = 0
       /\ bot_state.process = 0

\* C10: a stop request that directly follows a completed stop marks no
\* session (it has nothing to stop).
C10_SecondStopChangesNothing ==
    [][(lastEvent = "stop" /\ stopReq.pc = "idle" /\ stopReq'.pc = "marked")
       => bot_sessions' = bot_sessions]_vars

\* C11: a stop request that comes while the only active session has status
\* starting is not refused.
C11_StopAcceptedWhileStarting ==
    lastEvent = "stop_refused"
    => ~(\E s \in SessionIds :
           ActiveSessions = {s} /\ bot_sessions[s].status = "starting")

\* What get_bot_status would answer now: is_running true.
StatusIsRunning ==
    \E resp \in StatusResponses(bot_state, bot_sessions) : resp.is_running

\* C12: a toggle handled while a worker process is alive and its session has
\* status running leaves get_bot_status answering is_running = false.
C12_StatusFalseAfterToggleWhileRunning ==
    [][(/\ LiveProcs # {}
        /\ RunningSessions # {}
        /\ threads' # threads
        /\ lastEvent' \in {"toggle_start", "toggle_restart", "toggle_stop"})
       => ~StatusIsRunning']_vars

\* C13: with no live bot_loop thread, no live worker process and no row in
\* bot_sessions, get_bot_status has one answer: is_running false, session_id
\* None, login_status not_started.
C13_StatusWithoutSession ==
    (/\ LiveThreads = {}
     /\ LiveProcs = {}
     /\ \A s \in SessionIds : bot_sessions[s] = NoRow)
    => /\ StatusResponses(bot_state, bot_sessions) = {NotRunningResponse}
       /\ ~NotRunningResponse.is_running
       /\ NotRunningResponse.session_id = 0
       /\ NotRunningResponse.login_status = "not_started"

\* C13 happens: no thread, no process, no row, and BotState still holds the
\* handle of a bot_loop thread that has ended.
C13_Witness ==
    /\ LiveThreads = {}
    /\ LiveProcs = {}
    /\ \A s \in SessionIds : bot_sessions[s] = NoRow
    /\ bot_state.thread # 0
    /\ bot_state.running

\* C14: when the handler has handled a database_update, the session of the
\* message exists and its counters are the counters of the message.
C14_UpdateStoresCounters ==
    [][\A p \in ProcIds :
         (inflight[p] # NoMsg /\ inflight'[p] = NoMsg)
         => LET m == inflight[p]
                row == bot_sessions'[m.session_id] IN
            /\ row # NoRow
            /\ row.total_checks = m.total_checks
            /\ row.total_accepted = m.total_accepted
            /\ row.total_rejected = m.total_rejected]_vars

\* C15: the last report of a real_atoz_bot worker whose login has failed (the
\* only way to the phase exit) has status error and login_status failed.
C15_LastReportIsError ==
    \A p \in ProcIds :
      (/\ procs[p].kind = "real_atoz_bot"
       /\ procs[p].phase = "exit"
       /\ inflight[p] # NoMsg)
      => /\ inflight[p].status = "error"
         /\ inflight[p].login_status = "failed"

\* C16: the atoz_bot worker begins at most max_login_retries iterations of
\* its login loop and calls try_login at most once in each; while no startup
\* login has succeeded it has begun no cycle and is not in the cycle loop.
C16_LoginAttemptsBounded ==
    /\ ab.attempts <= max_login_retries
    /\ ab.tries <= ab.attempts
    /\ ~ab.startup_login
       => ab.cycle = 0 /\ ab.pc \notin {"loop", "cycle", "handler"}

\* C16 happens: max_login_retries attempts, all failed, and the worker has
\* ended.
C16_Witness ==
    /\ ab.pc = "done"
    /\ ab.attempts = max_login_retries
    /\ ab.tries = max_login_retries
    /\ ~ab.startup_login
    /\ ab.cycle = 0

C18_ScenarioAAccepted ==
    (/\ ev.pc # "extracted"
     /\ ev.job_data \in {ScenarioA, ScenarioATyped}
     /\ ev.details_text = RemoteTelephoneJob)
    => ev.first

\* C19: a job that differs from an accepted job in one required field, which
\* is empty, is turned down, and the reason sent names that field.
C19_MissingFieldNamed ==
    \A f \in RequiredFieldSet :
      (/\ ev.pc # "extracted"
       /\ ev.job_data = WithKey(OpenJob, f, <<>>)
       /\ ev.details_text = RemoteTelephoneJob)
      => /\ ~ev.first
         /\ f \in FieldsNamedIn(ev.reason)

\* C20: two evaluations of one job with one details text give one decision.
C20_SameInputsSameDecision ==
    ev.pc = "repeated" => ev.first = ev.second

\* C21: a face to face job without a ref is turned down at the check of the
\* job type: should_accept_job's reason is the one of that check, and the
\* loop of atoz_bot.py leaves the job at is_telephone_job, not before.
C21_CategoryGateFirst ==
    ev.job_data = ExcludedIncomplete
    => /\ ev.pc # "extracted"
          => ~ev.first /\ ev.reason = "Not a telephone interpreting job"
       /\ ev.atoz # "none" => ev.atoz \in {"job_type", "rejected"}

\* C22: every session with status stopped or error has its end_time set.
C22_EndedSessionHasEndTime ==
    \A s \in SessionIds :
      bot_sessions[s].status \in {"stopped", "error"} => bot_sessions[s].end_time # 0

\* C23: a step that changes bot_sessions is not a step of the integrated_bot
\* worker.
C23_OnlyControllerWritesSessions ==
    [][bot_sessions' # bot_sessions => ib' = ib]_vars

C25_StatusReportsStartedWorker ==
    \A p \in LiveProcs :
      (procs[p].by = "start" /\ bot_sessions[procs[p].sid].status = "running")
      => \E resp \in StatusResponses(bot_state, bot_sessions) :
           resp.is_running /\ resp.session_id = procs[p].sid

\* C27: a step of a stop path that ends a worker process finds the session
\* it stops marked stopped in bot_sessions: the session of the stop request
\* for stop_bot, the session of the cache for stop_bot_redis.
C27_MarkedStoppedBeforeTermination ==
    [][/\ (stopReq.pc = "marked" /\ stopReq'.pc = "idle")
          => bot_sessions[stopReq.sid].status = "stopped"
       /\ (rc.pc = "idle" /\ rc'.pc = "stopping" /\ rc.bot_process = "alive"
           /\ rc.sid \in SessionIds)
          => bot_sessions[rc.sid].status = "stopped"]_vars

\* C28: a thread of bot_loop ends, no stop or reset being part of the step,
\* only when a real_atoz_bot worker the toggle spawned has run and ended.
C28_ToggleThreadLivesWithWorker ==
    [][\A t \in ThreadIds :
         (threads[t] = "alive" /\ threads'[t] # "alive" /\ bot_state' = bot_state)
         => \E p \in ProcIds : /\ procs[p].kind = "real_atoz_bot"
                               /\ procs[p].by = "toggle"
                               /\ ~procs[p].alive]_vars

\* C26: a worker process alive when the last request served was a toggle
\* that stopped the bot is not alive some time later.
C26_WorkerEndsAfterToggleStop ==
    \A p \in ProcIds :
      (lastEvent = "toggle_stop" /\ procs[p].alive) ~> ~procs[p].alive

\* C29: the handler of the cycle that is the tenth to fail in a row sends
\* max_errors_reached, sleeps 30 seconds and leaves consecutive_errors 0.
C29_TenFailuresReachCeiling ==
    [][(/\ ab.pc = "handler"
        /\ ab'.pc = "loop"
        /\ ab.failed_in_a_row = max_consecutive_errors)
       => /\ ab'.event = "max_errors_reached"
          /\ ab'.slept = 30
          /\ ab'.consecutive_errors = 0]_vars

\* C30: the backoff sleep after the k-th failure in a row, k below the
\* ceiling, is min(5 + 2k, 30) seconds.
C30_BackoffGrowsWithFailures ==
    [][(/\ ab.pc = "handler"
        /\ ab'.pc = "loop"
        /\ ab'.backoff
        /\ ab.failed_in_a_row < max_consecutive_errors)
       => ab'.slept = Min(5 + 2 * ab.failed_in_a_row, 30)]_vars

\* C31: in the handler of a cycle error, a Playwright error whose reload
\* fails leads back to the top of the loop whatever the restart does: with
\* a new browser the login is run again and its answer kept, and a restart
\* or a re-login that fails is followed by a sleep of 15 or 10 seconds, not
\* by the end of the loop.
C31_DriverLossRecovered ==
    ab.pc = "handler"
    => \A restart_ok, relogin \in BOOLEAN :
         LET w == CycleErrorHandled(ab, TRUE, FALSE, restart_ok, relogin) IN
         /\ w.pc = "loop"
         /\ restart_ok => w.login_successful = relogin
         /\ (restart_ok /\ relogin) => w.backoff
         /\ (restart_ok /\ ~relogin) => (w.slept = 10 /\ ~w.backoff)
         /\ ~restart_ok => (w.slept = 15 /\ ~w.backoff)

\* C31 happens: a re-login failed after a restart, and the worker is at the
\* top of its loop.
C31_Witness ==
    /\ ab.pc = "loop"
    /\ ab.slept = 10
    /\ ~ab.login_successful

\* C32: after a completed cycle the session of the worker has, in
\* bot_sessions, the totals the worker reported for that cycle.
C32_StoreHasReportedTotals ==
    (cy.pc = "loop" /\ cy.completed)
    => /\ bot_sessions[cy.sid].total_checks = cy.total_checks
       /\ bot_sessions[cy.sid].total_accepted = cy.total_accepted
       /\ bot_sessions[cy.sid].total_rejected = cy.total_rejected

\* C33: at the end of a cycle, completed or not, total_accepted is the
\* number of accepts done on the portal since the worker started.
C33_TotalAcceptedIsAcceptsDone ==
    (cy.pc = "loop" /\ cy.cycle >= 1) => cy.total_accepted = cy.performed

C35_DeadThreadHandleCleared ==
    [][(bot_state.thread # 0 /\ ~ThreadAlive(bot_state))
       => /\ ~IsRunningResult(bot_state)
          /\ IsRunningState(bot_state).thread = 0
          /\ ~IsRunningState(bot_state).running
          /\ BotStateStartAllowed(IsRunningState(bot_state))
          /\ bot_state' # bot_state
             => \/ bot_state'.thread = 0 /\ ~bot_state'.running
                \/ /\ bot_state'.running
                   /\ bot_state'.thread # 0
                   /\ threads'[bot_state'.thread] = "alive"]_vars

\* C35 happens: the thread bot_state tracks has ended, the flag still set.
C35_Witness ==
    /\ bot_state.thread # 0
    /\ bot_state.running
    /\ threads[bot_state.thread] = "none"

\* C36: a GET /status request that has arrived can be served, whatever
\* BotState.stop or BotState.reset is doing with the thread.
C36_StatusServedDuringStop ==
    \A r \in StatusReqs : lk.req[r] = "waiting" => ENABLED LkStatusServe(r)

\* C38: the open telephone job with duration "1.5 hours" is accepted
\* wherever the same job with duration "1 hour" is.
C38_HourAndAHalfAccepted ==
    (/\ ev.pc # "extracted"
     /\ ev.job_data = HourAndAHalfJob
     /\ should_accept_job(OpenJob, ev.details_text, ev.now))
    => ev.first
\* C39: the task get_next_task returns is pending, is the one of highest
\* priority in the pending queue, leaves that queue, and is returned no
\* second time.
C39_NextTaskIsHighestOnce ==
    [][\A t \in TaskIds :
          tq'.returned[t] # tq.returned[t] =>
              /\ tq.returned[t] = 0
              /\ tq'.returned[t] = 1
              /\ tq'.next_task = t
              /\ tq.tasks[t].status = "pending"
              /\ \E e \in tq.queue : e.member = t
              /\ \A e \in tq.queue :
                    tq.tasks[e.member].priority <= tq.tasks[t].priority
              /\ \A e \in tq'.queue : e.member # t]_vars

\* C40: a task marked completed or failed is in neither the pending queue
\* nor the processing queue.
C40_FinishedTaskInNoQueue ==
    \A t \in TaskIds :
        tq.tasks[t].status \in {"completed", "failed"} =>
            /\ \A e \in tq.queue : e.member # t
            /\ t \notin tq.processing

====
